---- MODULE Spec2Model ----
(***************************************************************************)
(* openvpn-stats: the usage ledger (mongo_manager.py, connection_log), the *)
(* duration text it stores, and the management-console client              *)
(* (openvpn_management.py).                                                *)
(*                                                                         *)
(* Text is a sequence of one-character strings.  Timestamps are whole      *)
(* seconds.  An optional value (a document or a day record that may be     *)
(* missing) is a sequence of length 0 or 1.  The nested mapping            *)
(* history[year][month][day] is a function on the triples <<year, month,   *)
(* day>> that conn_data['date'].split('.') yields.                         *)
(***************************************************************************)
EXTENDS Integers, Sequences, FiniteSets, TLC

VARIABLES
    user_list,   \* the user_list collection: user id -> optional document
    conn_data,   \* the argument of the last connection_log call (optional)
    res,         \* the last update_one: acknowledged, applied, branch taken
    ret,         \* what the last connection_log call gave its caller
    before,      \* the day record the last call found (optional)
    anchor,      \* per day record: seconds and last when the record was last
                 \* written by a branch other than the continuation branch
    calls,       \* number of connection_log calls made
    fmt_in,      \* duration formatting: the number of seconds
    fmt_out,     \* duration formatting: the text (optional)
    sock,        \* self.__socket: "unset", "created", "connected", "closed"
    connected,   \* self.__connected: "unset", "true", "false"
    pc,          \* where the client is: "idle", "handshake", "reply"
    mode,        \* how the client was configured: unix socket or TCP, password
    command,     \* the command send_command was called with
    data,        \* __wait_for_data's accumulated text
    wire,        \* bytes the peer has sent that the client has not received
    peer,        \* the peer's end: "none", "open", "silent", "closed"
    sent,        \* the lines the client wrote to the socket, in order
    script,      \* the reply the peer was scripted to give (body, stream)
    split,       \* whether a receive boundary fell inside an >INFO line
    stale,       \* the unread bytes that were pending when the command was sent
    reads,       \* number of receives made by the current __wait_for_data
    raised,      \* the exception the last client operation raised ("none")
    result,      \* the text the last send_command returned (optional)
    op,          \* the last client operation that returned or raised
    log,         \* log scan: the lines read from the file so far
    start_time,  \* log scan: the time of the last start line (optional)
    active_time, \* log scan: day key -> optional total of the deltas
    scan_pc,     \* log scan: "idle", "reading", "done"
    proc,        \* concurrent connection_log calls: position, event, document
                 \* read, writes seen at the read, rank of the write
    store0       \* concurrent connection_log calls: the collection at the start

ledgerVars == <<user_list, conn_data, res, ret, before, anchor, calls>>
fmtVars == <<fmt_in, fmt_out>>
clientVars == <<sock, connected, pc, mode, command, data, wire, peer, sent,
                script, split, stale, reads, raised, result, op>>
scanVars == <<log, start_time, active_time, scan_pc>>
raceVars == <<proc, store0>>
vars == <<ledgerVars, fmtVars, clientVars, scanVars, raceVars>>

-----------------------------------------------------------------------------
(* Bounds of the model, and the inputs the driver and the peers draw from *)

MaxCalls == 3
FormatMax == 90000
MaxPending == 4

Users == {"alice"}
Dates == {<<"2024", "10", "07">>, <<"2024", "10", "08">>}
Ips == {"10.8.0.2"}
Ports == {"51820"}
Times == {0, 60, 90}
Elapsed == {3661}
Traffic == {[received |-> 1, sent |-> 2], [received |-> 5, sent |-> 3]}

\* the log scan: line times (whole seconds), and the length of a calendar day
MaxLines == 3
DayLength == 86400
LogTimes == {0, 90, 86380, 86470}
LogDays == {t \div DayLength : t \in LogTimes}

\* the concurrent callers of connection_log
Procs == {1, 2}

-----------------------------------------------------------------------------
(* Text *)

Digits == <<"0", "1", "2", "3", "4", "5", "6", "7", "8", "9">>

Digit(n) == Digits[n + 1]

\* f"{n:02}": decimal, zero-padded to at least two characters
RECURSIVE Decimal(_)
Decimal(n) == IF n < 10 THEN <<Digit(n)>> ELSE Decimal(n \div 10) \o <<Digit(n % 10)>>

Pad2(n) == IF n < 10 THEN <<"0", Digit(n)>> ELSE Decimal(n)

\* int((x / q) % m) of Python: true division, floating modulo (the sign of
\* the divisor), truncation.  x / q modulo m is (x modulo q*m) / q.
\* the quotient without the modulo
IntDivNoWrap(x, q, m) == x \div q

IntDivMod(x, q, m) == (x % (q * m)) \div q

formatHMS(x) ==
    LET hours == IntDivMod(x, 60 * 60, 24)
        seconds_ == x % 60
        minutes == IntDivMod(x, 60, 60)
    IN  Pad2(hours) \o <<":">> \o Pad2(minutes) \o <<":">> \o Pad2(seconds_)

-----------------------------------------------------------------------------
(* mongo_manager.py: the usage ledger *)

None == <<>>
Some(x) == <<x>>
IsSome(o) == Len(o) > 0
Get(o) == o[1]

\* the events connection_log is called with: lastTime >= startTime
Events ==
    {e \in [id : Users, date : Dates, ip : Ips, port : Ports,
            start : Times, last : Times, seconds : Elapsed,
            bytes : Traffic] :
        e.start <= e.last}

\* a document without any day record
EmptyHistory == [d \in Dates |-> None]

\* user_list.find_one({"id": id})
find_one(coll, id) == coll[id]

\* date_key[0] in history and date_key[1] in history[date_key[0]] and ...
HasDay(user_data, date) == IsSome(Get(user_data).history[date])

StoredDay(user_data, date) == Get(Get(user_data).history[date])

\* the branch for a stored day record: same start, or a reconnection
SameConnection(stored, ev) == ev.start = stored.start

MergeStart(stored, ev) ==
    IF SameConnection(stored, ev) THEN stored.start ELSE ev.start

\* every event measured from its own start
MergeSecondsSinceStart(stored, ev) == ev.last - ev.start

MergeSeconds(stored, ev) ==
    IF SameConnection(stored, ev)
    THEN ev.last - stored.last
    ELSE ev.last - ev.start

\* the byte counters replaced in both branches
MergeBytesReplaced(stored, ev) ==
    [received |-> ev.bytes.received, sent |-> ev.bytes.sent]

MergeBytes(stored, ev) ==
    IF SameConnection(stored, ev)
    THEN [received |-> ev.bytes.received, sent |-> ev.bytes.sent]
    ELSE [received |-> ev.bytes.received + stored.bytes.received,
          sent |-> ev.bytes.sent + stored.bytes.sent]

\* the merge with the stored duration text left as it was
MergedRecordKeptDuration(stored, ev) ==
    LET new_seconds == stored.seconds + MergeSeconds(stored, ev)
    IN  [ip |-> ev.ip, port |-> ev.port,
         start |-> MergeStart(stored, ev),
         last |-> ev.last,
         seconds |-> new_seconds,
         duration |-> stored.duration,
         bytes |-> MergeBytes(stored, ev)]

\* the document written for a day that has a stored record
MergedRecord(stored, ev) ==
    LET new_seconds == stored.seconds + MergeSeconds(stored, ev)
    IN  [ip |-> ev.ip, port |-> ev.port,
         start |-> MergeStart(stored, ev),
         last |-> ev.last,
         seconds |-> new_seconds,
         duration |-> formatHMS(new_seconds),
         bytes |-> MergeBytes(stored, ev)]

\* the first record of a day with seconds taken from the two times
NewDayRecordTimed(ev) ==
    [ip |-> ev.ip, port |-> ev.port, start |-> ev.start, last |-> ev.last,
     seconds |-> ev.last - ev.start, duration |-> formatHMS(ev.last - ev.start),
     bytes |-> [received |-> ev.bytes.received, sent |-> ev.bytes.sent]]

\* the document written for a known user's day without a stored record
NewDayRecord(ev) ==
    [ip |-> ev.ip, port |-> ev.port, start |-> ev.start, last |-> ev.last,
     seconds |-> ev.seconds, duration |-> formatHMS(ev.seconds),
     bytes |-> [received |-> ev.bytes.received, sent |-> ev.bytes.sent]]

\* the document written for a user that has no document
NewUserRecord(ev) ==
    [ip |-> ev.ip, port |-> ev.port, start |-> ev.start, last |-> ev.last,
     seconds |-> ev.seconds, duration |-> formatHMS(ev.seconds),
     bytes |-> [received |-> ev.bytes.received, sent |-> ev.bytes.sent]]

Branch(coll, ev) ==
    LET user_data == find_one(coll, ev.id)
    IN  IF IsSome(user_data)
        THEN IF HasDay(user_data, ev.date)
             THEN IF SameConnection(StoredDay(user_data, ev.date), ev)
                  THEN "continuation" ELSE "reconnect"
             ELSE "new_day"
        ELSE "new_user"

\* the update with the whole history as the path that is set
update_oneHistory(coll, id, date, record, upsert) ==
    IF IsSome(coll[id]) \/ upsert
    THEN [coll EXCEPT ![id] =
            Some([id |-> id,
                  history |-> [EmptyHistory EXCEPT ![date] = Some(record)]])]
    ELSE coll

\* update_one({'id': id}, {'$set': {'history.<date>': record}}, upsert):
\* sets the one path in the matching document; with upsert a missing
\* document is created holding the id and that path
update_one(coll, id, date, record, upsert) ==
    IF IsSome(coll[id])
    THEN [coll EXCEPT ![id] =
            Some([Get(coll[id]) EXCEPT !.history[date] = Some(record)])]
    ELSE IF upsert
         THEN [coll EXCEPT ![id] =
                Some([id |-> id,
                      history |-> [EmptyHistory EXCEPT ![date] = Some(record)]])]
         ELSE coll

\* the write computed from the document that is in the store at the time
\* of the write
WrittenFresh(user_data, coll, ev) ==
    LET fresh == find_one(coll, ev.id)
    IN  IF IsSome(fresh)
        THEN IF HasDay(fresh, ev.date)
             THEN update_one(coll, ev.id, ev.date,
                             MergedRecord(StoredDay(fresh, ev.date), ev), FALSE)
             ELSE update_one(coll, ev.id, ev.date, NewDayRecord(ev), FALSE)
        ELSE update_one(coll, ev.id, ev.date, NewUserRecord(ev), TRUE)

\* the collection after the update_one that connection_log issues, having
\* read user_data: the branch and the record come from the document read,
\* the write goes to the collection as it is now
WrittenFrom(user_data, coll, ev) ==
    IF IsSome(user_data)
    THEN IF HasDay(user_data, ev.date)
         THEN update_one(coll, ev.id, ev.date,
                         MergedRecord(StoredDay(user_data, ev.date), ev), FALSE)
         ELSE update_one(coll, ev.id, ev.date, NewDayRecord(ev), FALSE)
    ELSE update_one(coll, ev.id, ev.date, NewUserRecord(ev), TRUE)

\* the collection connection_log asks the store to write
Written(coll, ev) == WrittenFrom(find_one(coll, ev.id), coll, ev)

\* "if not res.acknowledged": the logger.error line formats chat_id_new,
\* chat_name and user_count, names that are not defined anywhere, so the
\* return False that follows it is never reached
Unacknowledged == "NameError"

Returned(acknowledged) == IF acknowledged THEN "ok" ELSE Unacknowledged

DayOf(coll, id, date) ==
    IF IsSome(coll[id]) THEN Get(coll[id]).history[date] ELSE None

\* One connection_log call.  The store is asked to write before the
\* result is looked at: a write that is not acknowledged (write concern 0)
\* has been sent all the same, and may or may not have been applied.
\* The NameError of an unacknowledged write ends the run.
connection_log(ev, acknowledged, applied) ==
    /\ calls < MaxCalls
    /\ ret # Unacknowledged
    /\ acknowledged => applied
    /\ LET b == Branch(user_list, ev)
           new == IF applied THEN Written(user_list, ev) ELSE user_list
       IN  /\ user_list' = new
           /\ res' = [acknowledged |-> acknowledged, applied |-> applied, branch |-> b]
           /\ anchor' =
                IF applied /\ b # "continuation"
                THEN [anchor EXCEPT ![<<ev.id, ev.date>>] =
                        Some([seconds |-> Get(DayOf(new, ev.id, ev.date)).seconds,
                              last |-> ev.last])]
                ELSE anchor
    /\ before' = DayOf(user_list, ev.id, ev.date)
    /\ conn_data' = Some(ev)
    /\ ret' = Returned(acknowledged)
    /\ calls' = calls + 1
    /\ UNCHANGED <<fmtVars, clientVars, scanVars, raceVars>>

ConnectionLog ==
    \E ev \in Events, acknowledged \in BOOLEAN, applied \in BOOLEAN :
        connection_log(ev, acknowledged, applied)

InitLedger ==
    /\ user_list = [u \in Users |-> None]
    /\ conn_data = None
    /\ res = [acknowledged |-> TRUE, applied |-> FALSE, branch |-> "none"]
    /\ ret = "none"
    /\ before = None
    /\ anchor = [k \in Users \X Dates |-> None]
    /\ calls = 0

InitFormatIdle ==
    /\ fmt_in = 0
    /\ fmt_out = None

InitClientIdle ==
    /\ sock = "unset"
    /\ connected = "unset"
    /\ pc = "idle"
    /\ mode = [unix |-> FALSE, password |-> FALSE]
    /\ command = None
    /\ data = <<>>
    /\ wire = <<>>
    /\ peer = "none"
    /\ sent = <<>>
    /\ script = [body |-> <<>>, stream |-> <<>>]
    /\ split = FALSE
    /\ stale = <<>>
    /\ reads = 0
    /\ raised = "none"
    /\ result = None
    /\ op = "none"

InitScanIdle ==
    /\ log = <<>>
    /\ start_time = None
    /\ active_time = [d \in LogDays |-> None]
    /\ scan_pc = "idle"

InitRaceIdle ==
    /\ proc = [p \in Procs |->
                [pc |-> "idle", ev |-> None, user_data |-> None,
                 saw |-> 0, rank |-> 0]]
    /\ store0 = [u \in Users |-> None]

Init == InitLedger /\ InitFormatIdle /\ InitClientIdle /\ InitScanIdle /\ InitRaceIdle

Next == ConnectionLog

Spec == Init /\ [][Next]_vars

-----------------------------------------------------------------------------
(* Duration formatting on its own *)

InitFormat ==
    /\ fmt_in \in 0..FormatMax
    /\ fmt_out = None

Format ==
    /\ fmt_out = None
    /\ fmt_out' = Some(formatHMS(fmt_in))
    /\ UNCHANGED <<fmt_in, ledgerVars, clientVars, scanVars, raceVars>>

NextFormat == Format

InitFormatting ==
    InitFormat /\ InitLedger /\ InitClientIdle /\ InitScanIdle /\ InitRaceIdle

SpecFormat == InitFormatting /\ [][NextFormat]_vars

-----------------------------------------------------------------------------
(* openvpn_management.py: the management-console client *)

PasswordPrompt ==
    <<"E", "N", "T", "E", "R", " ", "P", "A", "S", "S", "W", "O", "R", "D",
      ":">>

PasswordSuccess ==
    <<"S", "U", "C", "C", "E", "S", "S", ":", " ", "p", "a", "s", "s", "w",
      "o", "r", "d", " ", "i", "s", " ", "c", "o", "r", "r", "e", "c", "t",
      "\r", "\n">>

BlockEnd == <<"\n", "E", "N", "D", "\r", "\n">>

InfoMarker == <<">", "I", "N", "F", "O">>

Quit == <<"q", "u", "i", "t", "\n">>

Kill == <<"k", "i", "l", "l">>

ClientKill == <<"c", "l", "i", "e", "n", "t", "-", "k", "i", "l", "l">>

LoadStats == <<"l", "o", "a", "d", "-", "s", "t", "a", "t", "s", "\n">>

\* the length socket_recv is called with
RecvSize == 1024

\* the configured password followed by a newline
PasswordLine == <<"s", "e", "c", "r", "e", "t", "\n">>

(* What the driver sends and what the peer answers *)

Status == <<"s", "t", "a", "t", "u", "s", "\n">>

KillAlice == <<"k", "i", "l", "l", " ", "a", "l", "i", "c", "e", "\n">>

ClientKill7 ==
    <<"c", "l", "i", "e", "n", "t", "-", "k", "i", "l", "l", " ", "7", "\n">>

Commands == {Status, KillAlice, ClientKill7, LoadStats}

InfoLine == <<">", "I", "N", "F", "O", ":", "x", "\r", "\n">>
LineA == <<"a", "\r", "\n">>
LineB == <<"b", "\r">>
KillReply == <<"O", "K", "\r", "\n">>
StatsReply == <<"n", "=", "1", "\r", "\n">>

\* replies to a block command: a body, >INFO lines the peer put between its
\* lines, and the block terminator after it
BlockReplies ==
    {[body |-> LineA \o LineB, stream |-> LineA \o LineB \o BlockEnd],
     [body |-> LineA \o LineB,
      stream |-> LineA \o InfoLine \o LineB \o BlockEnd],
     [body |-> LineB, stream |-> InfoLine \o LineB \o BlockEnd]}

StartsWith(s, t) == Len(s) >= Len(t) /\ SubSeq(s, 1, Len(t)) = t

EndsWith(s, t) ==
    Len(s) >= Len(t) /\ SubSeq(s, Len(s) - Len(t) + 1, Len(s)) = t

Min(S) == CHOOSE x \in S : \A y \in S : x <= y

\* only the commands that begin with kill
ReturnsAfterWriteKill(cmd) == StartsWith(cmd, Kill)

\* command.startswith('kill') or command.startswith('client-kill')
ReturnsAfterWrite(cmd) == StartsWith(cmd, Kill) \/ StartsWith(cmd, ClientKill)

Replies(cmd) ==
    IF StartsWith(cmd, Kill) \/ StartsWith(cmd, ClientKill)
    THEN {[body |-> KillReply, stream |-> KillReply],
          [body |-> <<>>, stream |-> <<>>]}
    ELSE IF cmd = LoadStats
         THEN {[body |-> StatsReply, stream |-> StatsReply],
               [body |-> StatsReply, stream |-> InfoLine \o StatsReply]}
         ELSE BlockReplies

\* where the match of '>INFO(.)*\r\n' that starts at s[i] ends, or 0: the
\* dot matches no "\n", so the match ends at the first "\n" after the
\* marker, and only if a "\r" comes right before it
MatchEnd(s, i) ==
    IF i + 4 > Len(s) \/ SubSeq(s, i, i + 4) # InfoMarker
    THEN 0
    ELSE LET nl == {j \in (i + 5)..Len(s) : s[j] = "\n"}
         IN  IF nl = {} THEN 0
             ELSE IF Min(nl) >= i + 6 /\ s[Min(nl) - 1] = "\r"
                  THEN Min(nl) ELSE 0

RECURSIVE SubFrom(_, _)
SubFrom(s, i) ==
    IF i > Len(s) THEN <<>>
    ELSE IF MatchEnd(s, i) > 0
         THEN SubFrom(s, MatchEnd(s, i) + 1)
         ELSE <<s[i]>> \o SubFrom(s, i + 1)

\* the chunk as received, nothing removed
NoSub(s) == s

\* re.sub('>INFO(.)*\r\n', '', socket_data)
ReSubInfo(s) == SubFrom(s, 1)

\* the >INFO lines of a stream, as <<first, last>> positions
RECURSIVE SpansFrom(_, _)
SpansFrom(s, i) ==
    IF i > Len(s) THEN {}
    ELSE IF MatchEnd(s, i) > 0
         THEN {<<i, MatchEnd(s, i)>>} \cup SpansFrom(s, MatchEnd(s, i) + 1)
         ELSE SpansFrom(s, i + 1)

InfoSpans(s) == SpansFrom(s, 1)

\* the loop without the load-stats test
LoopBreaksOnEnd(text, cmd) ==
    EndsWith(text, PasswordSuccess) \/ EndsWith(text, BlockEnd)

\* the loop left as soon as any text has come
LoopBreaksOnData(text, cmd) == text # <<>>

\* the loop's exit tests, on the text accumulated so far
LoopBreaks(text, cmd) ==
    \/ EndsWith(text, PasswordSuccess)
    \/ (cmd = Some(LoadStats) /\ text # <<>>)
    \/ EndsWith(text, BlockEnd)

\* the locals of a call that has ended
NoCall ==
    /\ data' = <<>>
    /\ command' = None
    /\ script' = [body |-> <<>>, stream |-> <<>>]
    /\ split' = FALSE
    /\ stale' = <<>>
    /\ reads' = 0

InitClient ==
    /\ sock = "unset"
    /\ connected = "unset"
    /\ pc = "idle"
    /\ mode \in [unix : BOOLEAN, password : BOOLEAN]
    /\ command = None
    /\ data = <<>>
    /\ wire = <<>>
    /\ peer = "none"
    /\ sent = <<>>
    /\ script = [body |-> <<>>, stream |-> <<>>]
    /\ split = FALSE
    /\ stale = <<>>
    /\ reads = 0
    /\ raised = "none"
    /\ result = None
    /\ op = "none"

\* socket_connect, the socket opened: with a password the handshake begins
SocketConnectGreeted(greeting) ==
    /\ pc = "idle" /\ sock \in {"unset", "closed"}
    /\ sock' = "connected"
    /\ peer' = "open"
    /\ sent' = <<>>
    /\ data' = <<>>
    /\ reads' = 0
    /\ command' = None
    /\ stale' = <<>>
    /\ split' = FALSE
    /\ result' = None
    /\ raised' = "none"
    /\ IF mode.password
       THEN /\ wire' = greeting
            /\ script' = [body |-> <<>>, stream |-> greeting]
            /\ pc' = "handshake"
            /\ UNCHANGED <<connected, op>>
       ELSE /\ wire' = <<>>
            /\ script' = [body |-> <<>>, stream |-> <<>>]
            /\ connected' = "true"
            /\ op' = "socket_connect"
            /\ pc' = "idle"
    /\ UNCHANGED <<mode, ledgerVars, fmtVars, scanVars, raceVars>>

\* the peer greets with the prompt alone
SocketConnectOpened == SocketConnectGreeted(PasswordPrompt)

\* socket_connect, connect raises socket.error: the except clause sets
\* __connected and raises; the socket object socket.socket() made for the
\* unix socket stays as it is
SocketConnectError ==
    /\ pc = "idle" /\ sock \in {"unset", "closed"}
    /\ sock' = IF mode.unix THEN "created" ELSE sock
    /\ connected' = "false"
    /\ raised' = "socket.error"
    /\ op' = "socket_connect"
    /\ sent' = <<>>
    /\ result' = None
    /\ NoCall
    /\ UNCHANGED <<pc, mode, wire, peer, ledgerVars, fmtVars, scanVars, raceVars>>

\* socket_connect, create_connection times out: the except clause reads
\* self.__socket, which create_connection never assigned (AttributeError),
\* or which is the closed socket of an earlier connection: socket_disconnect
\* then sends on it (socket.error)
SocketConnectTimeout ==
    /\ pc = "idle" /\ sock \in {"unset", "closed"}
    /\ ~mode.unix
    /\ connected' = "false"
    /\ raised' = IF sock = "unset" THEN "AttributeError" ELSE "socket.error"
    /\ op' = "socket_connect"
    /\ sent' = <<>>
    /\ result' = None
    /\ NoCall
    /\ UNCHANGED <<sock, pc, mode, wire, peer, ledgerVars, fmtVars, scanVars, raceVars>>

\* send_command: the command is written; kill and client-kill return at
\* once, every other command goes on to __wait_for_data
SendCommand(cmd, reply) ==
    /\ pc = "idle" /\ connected = "true" /\ sock = "connected"
    /\ peer = "open"
    /\ Len(wire) <= MaxPending
    /\ sent' = <<cmd>>
    /\ wire' = wire \o reply.stream
    /\ stale' = wire
    /\ script' = reply
    /\ split' = FALSE
    /\ reads' = 0
    /\ data' = <<>>
    /\ command' = Some(cmd)
    /\ raised' = "none"
    /\ result' = None
    /\ IF ReturnsAfterWrite(cmd)
       THEN pc' = "idle" /\ op' = "send_command"
       ELSE pc' = "reply" /\ op' = op
    /\ UNCHANGED <<sock, connected, mode, peer, ledgerVars, fmtVars, scanVars, raceVars>>

\* one turn of __wait_for_data's loop, the receive delivering n bytes
WaitForData(n) ==
    /\ pc \in {"handshake", "reply"}
    /\ n \in 1..Len(wire) /\ n <= RecvSize
    /\ LET socket_data == ReSubInfo(SubSeq(wire, 1, n))
           text == data \o socket_data
           asked == EndsWith(text, PasswordPrompt)
           answers == asked /\ pc = "handshake"
           done == LoopBreaks(text, command)
           at == Len(stale) + Len(script.stream) - Len(wire) + n
       IN  /\ data' = text
           /\ reads' = reads + 1
           /\ sent' = IF answers THEN Append(sent, PasswordLine) ELSE sent
           /\ wire' = SubSeq(wire, n + 1, Len(wire))
                        \o (IF answers /\ peer = "open"
                            THEN PasswordSuccess ELSE <<>>)
           /\ split' = (split \/ \E sp \in InfoSpans(stale \o script.stream) :
                                    sp[1] <= at /\ at < sp[2])
           /\ IF done
              THEN /\ pc' = "idle"
                   /\ raised' = "none"
                   /\ IF pc = "handshake"
                      THEN connected' = "true" /\ op' = "socket_connect"
                                               /\ result' = None
                      ELSE connected' = connected /\ op' = "send_command"
                                                  /\ result' = Some(text)
              ELSE UNCHANGED <<pc, raised, connected, op, result>>
    /\ UNCHANGED <<sock, mode, command, peer, script, stale, ledgerVars, fmtVars, scanVars, raceVars>>

\* a receive raises socket.timeout (the 3 s of create_connection stay on the
\* socket).  In socket_connect the except clause sets __connected and calls
\* socket_disconnect; in send_command the exception goes to the caller.
RecvTimeout ==
    /\ pc \in {"handshake", "reply"}
    /\ ~mode.unix
    /\ raised' = "socket.timeout"
    /\ pc' = "idle"
    /\ result' = None
    /\ IF pc = "handshake"
       THEN /\ connected' = "false"
            /\ sent' = Append(sent, Quit)
            /\ sock' = "closed"
            /\ peer' = "closed"
            /\ wire' = <<>>
            /\ op' = "socket_connect"
       ELSE /\ op' = "send_command"
            /\ UNCHANGED <<connected, sent, sock, peer, wire>>
    /\ NoCall
    /\ UNCHANGED <<mode, ledgerVars, fmtVars, scanVars, raceVars>>

\* a receive raises socket.error (the peer reset the connection).  In
\* socket_connect the except clause sets __connected and raises; in
\* send_command the exception goes to the caller.
RecvError ==
    /\ pc \in {"handshake", "reply"}
    /\ raised' = "socket.error"
    /\ pc' = "idle"
    /\ result' = None
    /\ peer' = "closed"
    /\ wire' = <<>>
    /\ IF pc = "handshake"
       THEN connected' = "false" /\ op' = "socket_connect"
       ELSE connected' = connected /\ op' = "send_command"
    /\ NoCall
    /\ UNCHANGED <<sock, mode, sent, ledgerVars, fmtVars, scanVars, raceVars>>

\* socket_disconnect: quit is sent, the socket shut down and closed; on a
\* socket that is closed or was never connected the send raises, and
\* without a socket the attribute read does
SocketDisconnect ==
    /\ pc = "idle"
    /\ op' = "socket_disconnect"
    /\ result' = None
    /\ IF sock = "connected"
       THEN /\ sent' = <<Quit>>
            /\ sock' = "closed"
            /\ peer' = "closed"
            /\ wire' = <<>>
            /\ raised' = "none"
       ELSE /\ raised' = IF sock = "unset" THEN "AttributeError" ELSE "socket.error"
            /\ sent' = <<>>
            /\ UNCHANGED <<sock, peer, wire>>
    /\ NoCall
    /\ UNCHANGED <<connected, pc, mode, ledgerVars, fmtVars, scanVars, raceVars>>

NextClient ==
    \/ SocketConnectOpened
    \/ SocketConnectError
    \/ SocketConnectTimeout
    \/ \E cmd \in Commands : \E reply \in Replies(cmd) : SendCommand(cmd, reply)
    \/ \E n \in 1..Len(wire) : WaitForData(n)
    \/ RecvTimeout
    \/ RecvError
    \/ SocketDisconnect

InitConsole ==
    InitClient /\ InitLedger /\ InitFormatIdle /\ InitScanIdle /\ InitRaceIdle

SpecClient == InitConsole /\ [][NextClient]_vars

-----------------------------------------------------------------------------
(* The client against a peer that may stop sending or close its end *)

MaxSent == 2
MaxEmptyReads == 2

\* a reply followed at once by a notification of the peer's own
StateLine == <<">", "S", ":", "x", "\r", "\n">>

TrailingReplies ==
    {[body |-> LineB, stream |-> LineB \o BlockEnd \o InfoLine],
     [body |-> LineB, stream |-> LineB \o BlockEnd \o StateLine]}

PeerCommands == {Status}

PeerReplies(cmd) == BlockReplies \cup TrailingReplies

\* the peer sends nothing more (how = "silent") or closes its end
\* (how = "closed"); the bytes it has sent stay to be received, or it had
\* sent none of them
PeerStops(how, sentAll) ==
    /\ pc \in {"handshake", "reply"}
    /\ peer = "open"
    /\ peer' = how
    /\ IF sentAll
       THEN UNCHANGED <<wire, script>>
       ELSE /\ wire' = <<>>
            /\ script' = [script EXCEPT !.stream =
                            SubSeq(@, 1, Len(@) - Min({Len(@), Len(wire)}))]
    /\ UNCHANGED <<sock, connected, pc, mode, command, data, sent, split,
                   stale, reads, raised, result, op,
                   ledgerVars, fmtVars, scanVars, raceVars>>

\* one turn of __wait_for_data's loop after the peer has closed its end:
\* recv returns the empty string at once.  A text that ends with the prompt
\* has the password sent again; the send to the closed peer goes through
\* or raises socket.error (EPIPE), which socket_connect's clause re-raises.
\* A turn that sends nothing changes nothing but the count of receives,
\* which is kept up to MaxEmptyReads: from there on the loop turns with the
\* state as it is, and the exit tests, made on the same text, stay false.
RecvEof(raises) ==
    /\ pc \in {"handshake", "reply"}
    /\ wire = <<>> /\ peer = "closed"
    /\ LET text == data \o ReSubInfo(<<>>)
           answers == EndsWith(text, PasswordPrompt) /\ pc = "handshake"
       IN  /\ raises => answers
           /\ ~raises /\ answers => Len(sent) < MaxSent
           /\ IF raises
              THEN /\ raised' = "socket.error"
                   /\ connected' = "false"
                   /\ op' = "socket_connect"
                   /\ pc' = "idle"
                   /\ result' = None
                   /\ NoCall
                   /\ UNCHANGED sent
              ELSE /\ sent' = IF answers THEN Append(sent, PasswordLine) ELSE sent
                   /\ reads' = IF reads < MaxEmptyReads THEN reads + 1 ELSE reads
                   /\ data' = text
                   /\ UNCHANGED <<raised, connected, op, pc, result, command,
                                  script, split, stale>>
    /\ UNCHANGED <<sock, mode, wire, peer, ledgerVars, fmtVars, scanVars, raceVars>>

\* nothing arrives for the 3 s that create_connection left on the socket
RecvIdle ==
    /\ wire = <<>> /\ peer # "closed"
    /\ RecvTimeout

NextPeer ==
    \/ SocketConnectOpened
    \/ \E cmd \in PeerCommands : \E reply \in PeerReplies(cmd) :
          SendCommand(cmd, reply)
    \/ \E n \in 1..Len(wire) : WaitForData(n)
    \/ \E how \in {"silent", "closed"}, sentAll \in BOOLEAN : PeerStops(how, sentAll)
    \/ \E raises \in BOOLEAN : RecvEof(raises)
    \/ RecvIdle

\* recv returns what has arrived, returns the empty string on a closed
\* stream, and gives up after the socket's timeout
FairPeer ==
    /\ WF_vars(\E n \in 1..Len(wire) : WaitForData(n))
    /\ WF_vars(\E raises \in BOOLEAN : RecvEof(raises))
    /\ WF_vars(RecvIdle)

SpecPeer == InitConsole /\ [][NextPeer]_vars /\ FairPeer

-----------------------------------------------------------------------------
(* The handshake with a peer that sends a notification after its prompt *)

Greetings == {PasswordPrompt, PasswordPrompt \o InfoLine}

NextHandshake ==
    \/ \E greeting \in Greetings : SocketConnectGreeted(greeting)
    \/ \E n \in 1..Len(wire) : WaitForData(n)
    \/ PeerStops("closed", FALSE)
    \/ \E raises \in BOOLEAN : RecvEof(raises)
    \/ RecvIdle

SpecHandshake == InitConsole /\ [][NextHandshake]_vars

-----------------------------------------------------------------------------
(* mongo_manager.py: two connection_log calls at the same time *)

\* both calls are for the same user and day
RaceDay == <<"2024", "10", "07">>
RaceEvents == {e \in Events : e.date = RaceDay}

\* the collection when the calls begin: no document, or the document that
\* one earlier call has made
RaceStores ==
    {[u \in Users |-> None]}
        \cup {Written([u \in Users |-> None], e) : e \in Events}

WritesDone == Cardinality({q \in Procs : proc[q].pc = "done"})

\* user_data = self.user_list.find_one({"id": conn_data['id']})
FindOne(p) ==
    /\ proc[p].pc = "called"
    /\ proc' = [proc EXCEPT ![p].pc = "read",
                            ![p].user_data = find_one(user_list, Get(proc[p].ev).id),
                            ![p].saw = WritesDone]
    /\ UNCHANGED <<ledgerVars, store0, fmtVars, clientVars, scanVars>>

\* the update_one of the branch that the document read selects
UpdateOne(p) ==
    /\ proc[p].pc = "read"
    /\ user_list' = WrittenFrom(proc[p].user_data, user_list, Get(proc[p].ev))
    /\ proc' = [proc EXCEPT ![p].pc = "done", ![p].rank = WritesDone + 1]
    /\ UNCHANGED <<conn_data, res, ret, before, anchor, calls, store0,
                   fmtVars, clientVars, scanVars>>

InitRace ==
    /\ store0 \in RaceStores
    /\ user_list = store0
    /\ conn_data = None
    /\ res = [acknowledged |-> TRUE, applied |-> FALSE, branch |-> "none"]
    /\ ret = "none"
    /\ before = None
    /\ anchor = [k \in Users \X Dates |-> None]
    /\ calls = 0
    /\ proc \in [Procs -> [pc : {"called"}, ev : {Some(e) : e \in RaceEvents},
                            user_data : {None}, saw : {0}, rank : {0}]]

NextRace == \E p \in Procs : FindOne(p) \/ UpdateOne(p)

InitRacing == InitRace /\ InitFormatIdle /\ InitClientIdle /\ InitScanIdle

SpecRace == InitRacing /\ [][NextRace]_vars

-----------------------------------------------------------------------------
(* mongo_manager.py: connection_log on a collection of several users *)

FrameUsers == {"alice", "bob"}

FrameEvents ==
    {e \in [id : FrameUsers, date : Dates, ip : Ips, port : Ports,
            start : {0, 60}, last : {60}, seconds : Elapsed,
            bytes : {[received |-> 5, sent |-> 3]}] : TRUE}

\* the record of a day's first event, as an earlier call stored it
SeedRecord(u, d) ==
    NewDayRecord([id |-> u, date |-> d, ip |-> "10.8.0.2", port |-> "51820",
                  start |-> 0, last |-> 0, seconds |-> 3661,
                  bytes |-> [received |-> 1, sent |-> 2]])

\* the collections earlier calls can have left: per user no document, or a
\* document with a record for some of the days
FrameStores ==
    {[u \in FrameUsers |->
        IF \E d \in Dates : <<u, d>> \in held
        THEN Some([id |-> u,
                   history |-> [d \in Dates |->
                                  IF <<u, d>> \in held
                                  THEN Some(SeedRecord(u, d)) ELSE None]])
        ELSE None] : held \in SUBSET (FrameUsers \X Dates)}

InitFrame ==
    /\ user_list \in FrameStores
    /\ conn_data = None
    /\ res = [acknowledged |-> TRUE, applied |-> FALSE, branch |-> "none"]
    /\ ret = "none"
    /\ before = None
    /\ anchor = [k \in FrameUsers \X Dates |-> None]
    /\ calls = 0

ConnectionLogFrame ==
    \E ev \in FrameEvents, acknowledged \in BOOLEAN, applied \in BOOLEAN :
        connection_log(ev, acknowledged, applied)

NextFrame == ConnectionLogFrame

InitFraming ==
    InitFrame /\ InitFormatIdle /\ InitClientIdle /\ InitScanIdle /\ InitRaceIdle

SpecFrame == InitFraming /\ [][NextFrame]_vars

-----------------------------------------------------------------------------
(* openvpn-logparser.py: the scan of a log file for one user *)

\* the --user option, and the users whose lines the file holds
ScanUser == "alice"
LogUsers == {"alice", "bob"}

\* a line: the user before the address, what follows the address (SENT
\* CONTROL, SIGUSR1[soft,connection-reset], SIGUSR1[soft,ping-restart], or
\* something else), and the time before +02:00
LogLines ==
    [user : LogUsers, kind : {"start", "reset", "restart", "other"},
     at : LogTimes]

\* re.search(f"{user}/" + address + marker, this_line)
Matches(line, kind) == line.user = ScanUser /\ line.kind = kind

\* start_time.strftime("%Y-%m-%d"), as the number of the day
DayKey(t) == t \div DayLength

\* the delta added to the day of the marker
AddDeltaMarkerDay(active, start, marker) ==
    [active EXCEPT ![DayKey(marker)] =
        Some((IF IsSome(@) THEN Get(@) ELSE 0) + (marker - start))]

\* delta_t = marker - start_time, added to active_time[day_key] or stored
\* as its first value
AddDelta(active, start, marker) ==
    [active EXCEPT ![DayKey(start)] =
        IF IsSome(@) THEN Some(Get(@) + (marker - start))
        ELSE Some(marker - start)]

\* one turn of the readline loop: the three searches, in the order of the
\* code, each marker adding its delta when start_time is set
ReadLine(line) ==
    /\ scan_pc = "reading"
    /\ Len(log) < MaxLines
    /\ log # <<>> => line.at >= log[Len(log)].at
    /\ LET started == IF Matches(line, "start") THEN Some(line.at) ELSE start_time
           reset == IF Matches(line, "reset") /\ IsSome(started)
                    THEN AddDelta(active_time, Get(started), line.at)
                    ELSE active_time
           restarted == IF Matches(line, "restart") /\ IsSome(started)
                        THEN AddDelta(reset, Get(started), line.at)
                        ELSE reset
       IN  /\ start_time' = started
           /\ active_time' = restarted
    /\ log' = Append(log, line)
    /\ UNCHANGED <<scan_pc, ledgerVars, fmtVars, clientVars, raceVars>>

\* readline returns the empty string: the totals are printed
Report ==
    /\ scan_pc = "reading"
    /\ scan_pc' = "done"
    /\ UNCHANGED <<log, start_time, active_time, ledgerVars, fmtVars,
                   clientVars, raceVars>>

InitScan ==
    /\ log = <<>>
    /\ start_time = None
    /\ active_time = [d \in LogDays |-> None]
    /\ scan_pc = "reading"

NextScan ==
    \/ \E line \in LogLines : ReadLine(line)
    \/ Report

InitScanning ==
    InitScan /\ InitLedger /\ InitFormatIdle /\ InitClientIdle /\ InitRaceIdle

SpecScan == InitScanning /\ [][NextScan]_vars

-----------------------------------------------------------------------------
(* The ledger's properties *)

\* the last call's event, the record it found and the record now stored
Ev == Get(conn_data)
Old == Get(before)
Now == Get(DayOf(user_list, Ev.id, Ev.date))

\* the last call found a record for the day, and its write reached the store
MergedCall == IsSome(conn_data) /\ res.applied /\ IsSome(before)
FirstCall == IsSome(conn_data) /\ res.applied /\ ~IsSome(before)

\* C1: a continuation (stored start = event start) adds event.last -
\* stored.last to the seconds, replaces both byte counters by the event's,
\* keeps start and sets last; over a run of continuations the seconds are
\* those of the record the run started from plus the sum of the deltas.
C1_Continuation ==
    (MergedCall /\ Ev.start = Old.start) =>
        /\ Now.seconds = Old.seconds + (Ev.last - Old.last)
        /\ Now.bytes.received = Ev.bytes.received
        /\ Now.bytes.sent = Ev.bytes.sent
        /\ Now.start = Old.start
        /\ Now.last = Ev.last
        /\ LET a == Get(anchor[<<Ev.id, Ev.date>>])
           IN  Now.seconds = a.seconds + (Ev.last - a.last)

\* two continuations in a row, each with a later last time
C1_Witness ==
    /\ MergedCall /\ Ev.start = Old.start
    /\ Ev.last > Old.last
    /\ Old.last > Get(anchor[<<Ev.id, Ev.date>>]).last
    /\ Now.bytes # Old.bytes

\* C2: a reconnect (stored start # event start) adds event.last -
\* event.start to the seconds, adds the event's byte counters to the stored
\* ones and takes the event's start.
C2_Reconnect ==
    (MergedCall /\ Ev.start # Old.start) =>
        /\ Now.seconds = Old.seconds + (Ev.last - Ev.start)
        /\ Now.bytes.received = Ev.bytes.received + Old.bytes.received
        /\ Now.bytes.sent = Ev.bytes.sent + Old.bytes.sent
        /\ Now.start = Ev.start

C2_Witness ==
    /\ MergedCall /\ Ev.start # Old.start
    /\ Ev.last > Ev.start
    /\ Now.seconds > Old.seconds

\* C3: the first event of a day is stored verbatim with the duration text of
\* its elapsed seconds; for an unseen user the new history holds exactly that
\* one day record.
C3_FirstEvent ==
    FirstCall =>
        /\ Now = [ip |-> Ev.ip, port |-> Ev.port, start |-> Ev.start,
                  last |-> Ev.last, seconds |-> Ev.seconds,
                  duration |-> formatHMS(Ev.seconds),
                  bytes |-> [received |-> Ev.bytes.received,
                             sent |-> Ev.bytes.sent]]
        /\ res.branch = "new_user" =>
              {d \in Dates : IsSome(DayOf(user_list, Ev.id, d))} = {Ev.date}

\* a known user's first event of another day
C3_Witness ==
    /\ FirstCall
    /\ res.branch = "new_day"
    /\ Cardinality({d \in Dates : IsSome(DayOf(user_list, Ev.id, d))}) = 2

Fields(r) == <<r.seconds, r.bytes.received, r.bytes.sent, r.start, r.last>>

\* C4: the same event applied twice in succession leaves the day record as
\* it was after the first application.
C4_Idempotent ==
    [][(/\ calls' = calls + 1
        /\ IsSome(conn_data) /\ conn_data' = conn_data
        /\ res.applied /\ res'.applied)
       => Fields(Get(DayOf(user_list', Ev.id, Ev.date))) = Fields(Now)]_vars

\* C5: the seconds of a stored day record never decrease.
C5_SecondsMonotone ==
    [][\A u \in Users, d \in Dates :
         IsSome(DayOf(user_list, u, d)) =>
            Get(DayOf(user_list', u, d)).seconds >= Get(DayOf(user_list, u, d)).seconds]_vars

\* C6: a write the store did not acknowledge is reported as a failure and
\* leaves the stored record of that user and day as it was.
C6_UnacknowledgedNotApplied ==
    (IsSome(conn_data) /\ ~res.acknowledged) =>
        /\ ret # "ok"
        /\ DayOf(user_list, Ev.id, Ev.date) = before

\* C7: every stored day record's duration text is the text of its seconds.
C7_DurationDerived ==
    \A u \in Users, d \in Dates :
        IsSome(DayOf(user_list, u, d)) =>
            Get(DayOf(user_list, u, d)).duration
                = formatHMS(Get(DayOf(user_list, u, d)).seconds)

\* a merge has changed the seconds, and with them the text
C7_Witness ==
    /\ MergedCall
    /\ Now.seconds # Old.seconds
    /\ Now.duration # Old.duration
    /\ Now.duration # formatHMS(Ev.seconds)

\* C8: the text of x >= 0 seconds is HH:MM:SS with HH = floor(x/3600) mod 24,
\* MM = floor(x/60) mod 60, SS = x mod 60, two digits each; 3661 gives
\* 01:01:01 and 90000 gives 01:00:00.
C8_FormatHMS ==
    IsSome(fmt_out) =>
        LET HH == (fmt_in \div 3600) % 24
            MM == (fmt_in \div 60) % 60
            SS == fmt_in % 60
        IN  /\ Get(fmt_out) = <<Digit(HH \div 10), Digit(HH % 10), ":",
                                Digit(MM \div 10), Digit(MM % 10), ":",
                                Digit(SS \div 10), Digit(SS % 10)>>
            /\ fmt_in = 3661 =>
                  Get(fmt_out) = <<"0", "1", ":", "0", "1", ":", "0", "1">>
            /\ fmt_in = 90000 =>
                  Get(fmt_out) = <<"0", "1", ":", "0", "0", ":", "0", "0">>

\* twenty-five hours, formatted
C8_Witness ==
    /\ fmt_in = 90000
    /\ fmt_out = Some(<<"0", "1", ":", "0", "0", ":", "0", "0">>)

-----------------------------------------------------------------------------
(* The client's properties *)

\* send_command has returned the reply to a block command, sent when no
\* unread bytes were pending
BlockReturned ==
    /\ pc = "idle" /\ op = "send_command" /\ raised = "none"
    /\ IsSome(result)
    /\ script \in BlockReplies
    /\ stale = <<>>

\* C9 as stated: the text returned for a body, >INFO lines and the block
\* terminator is exactly the body.
C9_ReturnsBodyOnly == BlockReturned => Get(result) = script.body

\* C9: the text returned ends with the block terminator, which is kept; when
\* every >INFO line arrived whole within one receive, the text is the body
\* followed by the terminator, with no >INFO line in it.
C9_ReturnsBodyAndEnd ==
    BlockReturned =>
        /\ EndsWith(Get(result), BlockEnd)
        /\ ~split => Get(result) = script.body \o BlockEnd

\* a reply with an >INFO line, received in several chunks, none of which
\* cut the >INFO line
C9_Witness ==
    /\ BlockReturned
    /\ ~split
    /\ reads > 1
    /\ InfoSpans(script.stream) # {}
    /\ Get(result) = script.body \o BlockEnd

\* C10: whenever socket_connect fails, the client is disconnected and no
\* socket it opened is left open.
C10_FailureClosesSocket ==
    (op = "socket_connect" /\ raised # "none") =>
        /\ connected = "false"
        /\ sock \notin {"created", "connected"}

\* C14: for every command that begins with kill or client-kill, send_command
\* writes the command and returns with no receive made, whatever the peer
\* has sent: the peer's bytes stay unread.
C14_KillNoRead ==
    (IsSome(command) /\ (StartsWith(Get(command), Kill)
                            \/ StartsWith(Get(command), ClientKill))) =>
        /\ pc = "idle" /\ op = "send_command" /\ raised = "none"
        /\ reads = 0
        /\ result = None
        /\ sent = <<Get(command)>>
        /\ wire = stale \o script.stream

\* client-kill has returned with the peer's answer unread
C14_Witness ==
    /\ command = Some(ClientKill7)
    /\ pc = "idle" /\ op = "send_command"
    /\ reads = 0
    /\ script.stream = KillReply
    /\ wire = stale \o KillReply

\* C13: socket_disconnect on a client whose socket is not connected (closed
\* by an earlier socket_disconnect, or never opened) is a no-op: it sends
\* nothing, leaves the socket as it is and raises no error.
C13_DisconnectIdempotent ==
    [][(SocketDisconnect /\ sock # "connected") =>
          /\ raised' = "none"
          /\ sent' = <<>>
          /\ sock' = sock]_vars

\* send_command has returned the text of a load-stats command
LoadStatsReturned ==
    /\ pc = "idle" /\ op = "send_command" /\ raised = "none"
    /\ command = Some(LoadStats)
    /\ IsSome(result)

\* C15 as stated: load-stats returns after the first receive that delivers
\* at least one byte.
C15_ReturnsOnFirstReceive == LoadStatsReturned => reads = 1

\* C15: load-stats returns as soon as the text accumulated, the >INFO lines
\* that came whole within one receive removed, is not empty, with no
\* terminator awaited: the call goes on receiving only while that text is
\* empty, and the text it returns is not empty.
C15_ReturnsOnText ==
    /\ (pc = "reply" /\ command = Some(LoadStats)) => data = <<>>
    /\ LoadStatsReturned => Get(result) # <<>>

\* returned at the second receive, the first having brought an >INFO line
\* alone, with bytes of the reply still unread and no terminator seen
C15_Witness ==
    /\ LoadStatsReturned
    /\ reads = 2
    /\ wire # <<>>
    /\ ~EndsWith(Get(result), BlockEnd)
    /\ StartsWith(StatsReply, Get(result))

\* r is s with some of its elements left out
RECURSIVE IsSubsequence(_, _)
IsSubsequence(r, s) ==
    IF r = <<>> THEN TRUE
    ELSE IF s = <<>> THEN FALSE
    ELSE IF Head(r) = Head(s) THEN IsSubsequence(Tail(r), Tail(s))
    ELSE IsSubsequence(r, Tail(s))

\* C19: in a sequence of send_command calls made one after the other, the
\* text returned for a command is made only of bytes the peer sent in reply
\* to that command.
C19_OnlyOwnReply ==
    (pc = "idle" /\ op = "send_command" /\ raised = "none" /\ IsSome(result))
        => IsSubsequence(Get(result), script.stream)

\* C20: the text returned for a reply does not depend on how its bytes
\* are cut into receives: it is the text returned when the whole reply comes
\* in one receive, every >INFO line removed.
C20_ChunkingIndependent ==
    BlockReturned => Get(result) = ReSubInfo(script.stream)

-----------------------------------------------------------------------------
(* The client's properties against a peer that may stop *)

\* socket_connect has returned without error, connected
Ready ==
    /\ pc = "idle" /\ op = "socket_connect" /\ raised = "none"
    /\ connected = "true"

\* C11: with a password, against a peer that sends the prompt, accepts the
\* password and replies with the success marker, socket_connect sends the
\* password after the prompt and eventually returns connected; the step
\* that ends the handshake connected is one after which the text received
\* ends with the success marker.
C11_Handshake ==
    /\ (pc = "handshake" /\ peer = "open") ~> (Ready \/ peer # "open")
    /\ [][(pc = "handshake" /\ pc' = "idle" /\ raised' = "none") =>
            /\ connected' = "true"
            /\ data' = PasswordPrompt \o PasswordSuccess
            /\ sent' = <<PasswordLine>>]_vars
    /\ [][(pc = "handshake" /\ pc' = "handshake") =>
            /\ connected' = connected
            /\ sent' # sent => EndsWith(data', PasswordPrompt)]_vars

\* the handshake done, the prompt and the marker received in several chunks
C11_Witness ==
    /\ Ready /\ mode.password
    /\ peer = "open"
    /\ reads > 2
    /\ sent = <<PasswordLine>>
    /\ EndsWith(data, PasswordSuccess)

\* C12: when the peer stops sending or closes its end during the
\* handshake, socket_connect comes to an end (it raises, or it returns when
\* the success marker had already been sent): it does not wait forever.
C12_ConnectEnds ==
    (pc = "handshake" /\ peer \in {"silent", "closed"})
        ~> (pc = "idle" /\ op = "socket_connect")

\* the block terminator is among the bytes of the reply
HasBlockEnd(stream) ==
    \E i \in 1..Len(stream) : StartsWith(SubSeq(stream, i, Len(stream)), BlockEnd)

\* C18: when the reply to a block command holds the block terminator and
\* the peer stays open, send_command comes to an end, however the bytes are
\* cut into receives and whatever the peer sends after the terminator.
C18_ReplyEnds ==
    (pc = "reply" /\ peer = "open" /\ HasBlockEnd(script.stream))
        ~> (pc = "idle" \/ peer # "open")

\* the password lines among the lines written to the socket
PasswordsSent == Cardinality({i \in 1..Len(sent) : sent[i] = PasswordLine})

\* C21: in a handshake the peer sends one prompt, and the client sends the
\* password once, whatever is received between the prompt and the answer.
C21_PasswordOnce == (mode.password /\ sock = "connected") => PasswordsSent <= 1

-----------------------------------------------------------------------------
(* The log scan's properties *)

IsMarker(line) == line.user = ScanUser /\ line.kind \in {"reset", "restart"}

IsStart(line) == line.user = ScanUser /\ line.kind = "start"

\* the markers of a log that have a start line of the user before them,
\* and for each the time of the last such start line
Anchored(l) == {i \in 1..Len(l) : IsMarker(l[i]) /\ \E j \in 1..(i - 1) : IsStart(l[j])}

AnchorOf(l, i) ==
    l[CHOOSE j \in 1..(i - 1) :
        IsStart(l[j]) /\ \A k \in (j + 1)..(i - 1) : ~IsStart(l[k])].at

RECURSIVE SumDeltas(_, _)
SumDeltas(l, S) ==
    IF S = {} THEN 0
    ELSE LET i == CHOOSE x \in S : TRUE
         IN  (l[i].at - AnchorOf(l, i)) + SumDeltas(l, S \ {i})

\* per day, the sum of marker time - start time over the anchored markers
\* whose start falls on that day; no entry for a day without any
Totals(l) ==
    [d \in LogDays |->
        LET S == {i \in Anchored(l) : AnchorOf(l, i) \div DayLength = d}
        IN  IF S = {} THEN None ELSE Some(SumDeltas(l, S))]

\* C16: a reset or restart marker read while no start time is held adds
\* nothing; otherwise it adds marker time - start time to the total of the
\* start time's day; the report maps each day to the sum of these deltas;
\* a log with a start at T0 and a reset 90 s later gives {day of T0: 90}.
C16_LogScan ==
    /\ [][Len(log') = Len(log) + 1 =>
            LET line == log'[Len(log')]
                day == Get(start_time) \div DayLength
            IN  IF IsMarker(line) /\ IsSome(start_time)
                THEN /\ active_time'[day] =
                          Some((IF IsSome(active_time[day])
                                THEN Get(active_time[day]) ELSE 0)
                               + (line.at - Get(start_time)))
                     /\ \A d \in LogDays \ {day} : active_time'[d] = active_time[d]
                ELSE active_time' = active_time]_vars
    /\ [](scan_pc = "done" => active_time = Totals(log))
    /\ [](\A t \in LogTimes :
            (/\ scan_pc = "done" /\ Len(log) = 3
             /\ ~IsMarker(log[1]) /\ ~IsStart(log[1])
             /\ IsStart(log[2]) /\ log[2].at = t
             /\ IsMarker(log[3]) /\ log[3].kind = "reset" /\ log[3].at = t + 90)
            => active_time = [d \in LogDays |->
                                IF d = t \div DayLength THEN Some(90) ELSE None])

\* a marker without a start before it, then a start shortly before
\* midnight and a reset 90 s later, on the next day
C16_Witness ==
    /\ scan_pc = "done" /\ Len(log) = 3
    /\ IsMarker(log[1])
    /\ IsStart(log[2]) /\ IsMarker(log[3])
    /\ log[3].at = log[2].at + 90
    /\ log[3].at \div DayLength # log[2].at \div DayLength
    /\ active_time[log[2].at \div DayLength] = Some(90)
    /\ active_time[log[3].at \div DayLength] = None

-----------------------------------------------------------------------------
(* The properties of two connection_log calls at the same time *)

BothDone == \A p \in Procs : proc[p].pc = "done"

\* the call that wrote first, the call that wrote last, and their events
First == CHOOSE p \in Procs : proc[p].rank = 1
Last == CHOOSE p \in Procs : proc[p].rank = 2
FirstEv == Get(proc[First].ev)
LastEv == Get(proc[Last].ev)

\* the day record in the document a call read
ReadDay(p) ==
    IF IsSome(proc[p].user_data)
    THEN Get(proc[p].user_data).history[RaceDay] ELSE None

\* the day record after the two calls one after the other
Serial(e1, e2) == DayOf(Written(Written(store0, e1), e2), e1.id, RaceDay)

\* C17: connection_log reads, then writes, and nothing ties the two: when
\* both calls read before either writes, the record stored at the end is
\* the one the last writer made from the record both read, the first
\* writer's event left out; when the second call reads after the first has
\* written, the record is that of the two calls in that order.
C17_LostUpdate ==
    BothDone =>
        /\ (\A p \in Procs : proc[p].saw = 0) =>
              DayOf(user_list, LastEv.id, RaceDay) =
                Some(IF IsSome(ReadDay(Last))
                     THEN MergedRecord(Get(ReadDay(Last)), LastEv)
                     ELSE NewDayRecord(LastEv))
        /\ proc[Last].saw = 1 =>
              DayOf(user_list, LastEv.id, RaceDay) = Serial(FirstEv, LastEv)

\* both calls read before either wrote, and the record stored is that of
\* neither order of the two calls: its seconds and its bytes received are
\* below those of both orders
C17_Witness ==
    /\ BothDone
    /\ \A p \in Procs : proc[p].saw = 0
    /\ LET final == Get(DayOf(user_list, LastEv.id, RaceDay))
           ab == Get(Serial(FirstEv, LastEv))
           ba == Get(Serial(LastEv, FirstEv))
       IN  /\ final # ab /\ final # ba
           /\ final.seconds < ab.seconds /\ final.seconds < ba.seconds
           /\ final.bytes.received < ab.bytes.received
           /\ final.bytes.received < ba.bytes.received

-----------------------------------------------------------------------------
(* The properties of connection_log on several users *)

\* C22: a connection_log call for a user and a day leaves the records of
\* that user's other days and the documents of all other users as they
\* were, in every branch, acknowledged or not.
C22_Frame ==
    [][calls' = calls + 1 =>
         LET ev == Get(conn_data')
         IN  /\ \A u \in FrameUsers \ {ev.id} : user_list'[u] = user_list[u]
             /\ \A d \in Dates \ {ev.date} :
                   DayOf(user_list', ev.id, d) = DayOf(user_list, ev.id, d)]_vars

\* a reconnect has changed the record of the day, the user's other day and
\* the other user's days holding records
C22_Witness ==
    /\ MergedCall /\ res.branch = "reconnect"
    /\ Now # Old
    /\ \A d \in Dates : IsSome(DayOf(user_list, Ev.id, d))
    /\ \A u \in FrameUsers, d \in Dates : IsSome(DayOf(user_list, u, d))

-----------------------------------------------------------------------------
(* The log scan counts a session once *)

\* a marker of the log has added the delta of the last start line: no start
\* line of the user comes after it
Counted(l) ==
    \E i \in Anchored(l) : \A k \in (i + 1)..Len(l) : ~IsStart(l[k])

\* C23: once a reset or restart marker has added its delta, a further
\* marker with no start line in between adds nothing to any day's total.
C23_CountedOnce ==
    [][(/\ Len(log') = Len(log) + 1
        /\ IsMarker(log'[Len(log')])
        /\ Counted(log))
       => active_time' = active_time]_vars

====
